---- MODULE Spec2Model ----
(***************************************************************************)
(* Model of gllm's structured-generation engine (package gllm):            *)
(*   - cleanJsonOutput / extractJSONAndComment / json.Unmarshal            *)
(*   - ModelCallStructured, the turn loop with tool calls                  *)
(*   - ModelCallStructuredBatch / GetModelCallBatchResults                 *)
(*                                                                         *)
(* Text is a sequence of characters.  Two multi-character units are kept   *)
(* as one element each, the code fence (three backquotes, written "FENCE"  *)
(* here) and the fence tagged json ("FENCEjson"), and one JSON object      *)
(* member ("a":1, written "MEMBER"); the letters of "json"                 *)
(* do not occur on their own, so every text has exactly one spelling and   *)
(* prefix/suffix tests on elements agree with the tests on bytes.          *)
(***************************************************************************)
EXTENDS Integers, Sequences, FiniteSets, TLC

\* ------------------------------------------------------------- bounds
MaxLen == 5
MaxTurns == 2
MaxBudget == 2
MaxCalls == 2
MaxItems == 2
MaxAdds == 2
MaxPolls == 2

\* ------------------------------------------------------------- text
Fence == "FENCE"
FenceJson == "FENCEjson"
Member == "MEMBER"
Chars == {"{", "}", "a", " ", "\n", Fence, FenceJson, Member}

\* a nil error or string, and a nil pointer
Nil == <<"nil">>
NilPtr == [nil |-> TRUE]

IsSpace(c) == c \in {" ", "\n"}

RECURSIVE TrimLeft(_)
TrimLeft(s) ==
    IF s = <<>> THEN s
    ELSE IF IsSpace(Head(s)) THEN TrimLeft(Tail(s)) ELSE s

RECURSIVE TrimRight(_)
TrimRight(s) ==
    IF s = <<>> THEN s
    ELSE IF IsSpace(s[Len(s)]) THEN TrimRight(SubSeq(s, 1, Len(s) - 1)) ELSE s

\* strings.TrimSpace
TrimSpace(s) == TrimRight(TrimLeft(s))

\* strings.HasPrefix / strings.HasSuffix
HasPrefix(s, p) == Len(s) >= Len(p) /\ SubSeq(s, 1, Len(p)) = p
HasSuffix(s, p) == Len(s) >= Len(p) /\ SubSeq(s, Len(s) - Len(p) + 1, Len(s)) = p

\* strings.TrimPrefix / strings.TrimSuffix
TrimPrefix(s, p) == IF HasPrefix(s, p) THEN SubSeq(s, Len(p) + 1, Len(s)) ELSE s
TrimSuffix(s, p) == IF HasSuffix(s, p) THEN SubSeq(s, 1, Len(s) - Len(p)) ELSE s

\* strings.Split(s, "\n"): always at least one (possibly empty) line
RECURSIVE Split(_)
Split(s) ==
    IF \A i \in 1..Len(s) : s[i] # "\n" THEN <<s>>
    ELSE LET k == CHOOSE i \in 1..Len(s) :
                      s[i] = "\n" /\ \A j \in 1..(i - 1) : s[j] # "\n"
         IN  <<SubSeq(s, 1, k - 1)>> \o Split(SubSeq(s, k + 1, Len(s)))

\* strings.Join(lines, "\n")
RECURSIVE Join(_)
Join(lines) ==
    IF lines = <<>> THEN <<>>
    ELSE IF Len(lines) = 1 THEN lines[1]
    ELSE lines[1] \o <<"\n">> \o Join(Tail(lines))

cleanJsonOutput(s) ==
    LET o1 == TrimSpace(s)
        o2 == TrimPrefix(o1, <<FenceJson>>)
        o3 == TrimSuffix(o2, <<Fence>>)
    IN  TrimSpace(o3)

\* index of the first line that starts with "{", 0 when there is none
RECURSIVE FirstBraceLine(_, _)
FirstBraceLine(lines, i) ==
    IF i > Len(lines) THEN 0
    ELSE IF HasPrefix(lines[i], <<"{">>) THEN i
    ELSE FirstBraceLine(lines, i + 1)

\* the earlier revision: only the last line is looked at, and the comment
\* is not trimmed
extractLastLineOnly(output) ==
    IF HasPrefix(output, <<"{">>) THEN <<<<>>, output>>
    ELSE LET lines == Split(output)
             n == Len(lines)
         IN  IF HasPrefix(lines[n], <<"{">>)
             THEN <<Join(SubSeq(lines, 1, n - 1)), lines[n]>>
             ELSE <<<<>>, <<>>>>

\* returns <<comment, json>>
extractJSONAndComment(output) ==
    IF HasPrefix(output, <<"{">>) THEN <<<<>>, output>>
    ELSE LET lines == Split(output)
             i == FirstBraceLine(lines, 1)
         IN  IF i # 0
             THEN <<TrimSpace(Join(SubSeq(lines, 1, i - 1))),
                    Join(SubSeq(lines, i, Len(lines)))>>
             ELSE <<output, <<>>>>

\* the scanner of encoding/json on the text, for a target struct {A int}:
\* the state after reading s from state st
RECURSIVE Scan(_, _)
Scan(st, s) ==
    IF s = <<>> \/ st = "invalid" THEN st
    ELSE LET c == Head(s)
             nx == CASE IsSpace(c) -> st
                     [] st = "begin" /\ c = "{" -> "open"
                     [] st = "open" /\ c = Member -> "member"
                     [] st \in {"open", "member"} /\ c = "}" -> "end"
                     [] OTHER -> "invalid"
         IN  Scan(nx, Tail(s))

ErrUnexpectedEnd == <<"unexpected end of JSON input">>
ErrInvalidChar == <<"invalid character">>

\* json.Unmarshal([]byte(s), &outv): [err, val]
JsonUnmarshal(s) ==
    LET st == Scan("begin", s)
    IN  CASE st = "end" ->
               [err |-> Nil,
                val |-> [A |-> IF \E i \in 1..Len(s) : s[i] = Member THEN 1 ELSE 0]]
          [] st = "invalid" -> [err |-> ErrInvalidChar, val |-> NilPtr]
          [] OTHER -> [err |-> ErrUnexpectedEnd, val |-> NilPtr]

\* ------------------------------------------------------------- state
VARIABLES
    \* the extractor pipeline on its own
    xpc,        \* "idle", "input", "cleaned", "extracted", "decoded"
    content,    \* resp.Choices[0].Message.Content
    output,     \* output := cleanJsonOutput(content)
    message,    \* message, jsonout := extractJSONAndComment(output)
    jsonout,
    decoded,    \* result of json.Unmarshal([]byte(jsonout), &outv)
    \* ModelCallStructured
    pc,             \* "idle", "setup" (the call is entered), "chat" (top of
                    \* the for loop), "tools" (inside the loop over
                    \* mm.ToolCalls), "done", "failed"
    MaxToolCalls,   \* req.MaxToolCalls
    System,         \* req.System
    MessagePrefill, \* req.MessagePrefill
    PromptOverride, \* req.PromptOverride["structured_call"], Nil without it
    OutputType,     \* the type T of the call
    cancelled,      \* ctx has been cancelled
    msgs,           \* msgs
    glreq,          \* the last gollama.RequestOptions sent
    resp,           \* resp, err of the last ChatCompletion
    mm,             \* mm := resp.Choices[0].Message
    tci,            \* index of tc in mm.ToolCalls
    toolresp,       \* toolresp, err of the last HandleToolCall
    tcerr,
    ret,            \* what ModelCallStructured returned
    \* history of the run, not read by the code
    initBudget,     \* req.MaxToolCalls when the run began
    turnBudget,     \* req.MaxToolCalls when mm arrived
    nChat,          \* ChatCompletion calls made
    nInvoked,       \* tool functions called
    turnInvoked,    \* tool functions called since mm arrived
    nAnswered,      \* tool messages appended since mm arrived
    \* ModelCallStructuredBatch / GetModelCallBatchResults
    bpc,            \* "idle", "start" (nothing submitted), "ready" (submitted),
                    \* "failed" (the submission returned an error)
    requests,       \* requests, the argument of ModelCallStructuredBatch
    batchRequests,  \* the Requests of the CreateBatch call
    nCreateBatch,   \* CreateBatch calls made
    subret,         \* what ModelCallStructuredBatch returned
    submitted,      \* the CustomIDs of the submitted requests, in order
    gwBatch,        \* the batch as the gateway holds it
    gwResults,      \* the per-item results the gateway holds once ended
    polls,          \* what each GetModelCallBatchResults call returned, in order
    nGetBatch,      \* GetBatch calls made
    nGetResults,    \* GetBatchResults calls made
    \* the client-level registry (the revision of gllm.go that has c.Tools)
    rpc,            \* "idle", "client" (tools are being registered), "merged"
                    \* (ModelCallStructured built tools), "resolved"
    Tools,          \* c.Tools, a map from names to tools
    added,          \* the arguments of the AddTool calls, in order
    reqTools,       \* req.Tools
    merged,         \* tools, the merged list of ModelCallStructured
    tooldefs,       \* tooldefs, the declarations sent to the gateway
    rcall,          \* tc, the tool call the model asked for
    handled,        \* what HandleToolCall(tools, tc) returned
    \* a second call running at the same time on another request
    PrefillSpare,   \* cap(req.MessagePrefill) > len(req.MessagePrefill), and the
                    \* other request holds the same slice
    otherSetup      \* the other call has appended its user message

xvars == <<xpc, content, output, message, jsonout, decoded>>
lvars == <<pc, MaxToolCalls, System, MessagePrefill, PromptOverride, OutputType,
           cancelled, msgs, glreq, resp, mm, tci, toolresp, tcerr, ret,
           initBudget, turnBudget, nChat, nInvoked, turnInvoked, nAnswered>>
bvars == <<bpc, requests, batchRequests, nCreateBatch, subret, submitted, gwBatch,
           gwResults, polls, nGetBatch, nGetResults>>
rvars == <<rpc, Tools, added, reqTools, merged, tooldefs, rcall, handled>>
ovars == <<PrefillSpare, otherSetup>>
vars == <<xvars, lvars, bvars, rvars, ovars>>

\* ------------------------------------------------------------- idle
NoCall == [Name |-> "", Arguments |-> <<>>]
NoHandled == [resp |-> <<>>, err |-> <<"nil">>, invoked |-> FALSE]

RIdle ==
    /\ rpc = "idle"
    /\ Tools = <<>>
    /\ added = <<>>
    /\ reqTools = <<>>
    /\ merged = <<>>
    /\ tooldefs = <<>>
    /\ rcall = NoCall
    /\ handled = NoHandled

OIdle ==
    /\ PrefillSpare = FALSE
    /\ otherSetup = FALSE

\* ------------------------------------------------------------- extractor
XIdle ==
    /\ xpc = "idle"
    /\ content = <<>>
    /\ output = <<>>
    /\ message = <<>>
    /\ jsonout = <<>>
    /\ decoded = [err |-> Nil, val |-> NilPtr]

NoMessage == [Role |-> "", Content |-> <<>>, ToolCalls |-> <<>>, ToolCallID |-> Nil]
NoRequest == [System |-> "", Messages |-> <<>>, Tools |-> <<>>, ToolChoice |-> ""]
NoResponse == [err |-> Nil, Message |-> NoMessage]
NoReturn == [out |-> NilPtr, err |-> Nil]

LIdle ==
    /\ pc = "idle"
    /\ MaxToolCalls = 0
    /\ System = ""
    /\ MessagePrefill = <<>>
    /\ PromptOverride = Nil
    /\ OutputType = "struct"
    /\ cancelled = FALSE
    /\ msgs = <<>>
    /\ glreq = NoRequest
    /\ resp = NoResponse
    /\ mm = NoMessage
    /\ tci = 0
    /\ toolresp = <<>>
    /\ tcerr = Nil
    /\ ret = NoReturn
    /\ initBudget = 0
    /\ turnBudget = 0
    /\ nChat = 0
    /\ nInvoked = 0
    /\ turnInvoked = 0
    /\ nAnswered = 0

\* the text of the reply is any text of at most MaxLen characters, built
\* one character at a time
NoBatch == [ID |-> "", ProcessingStatus |-> "", RequestCounts |-> <<>>]

BIdle ==
    /\ bpc = "idle"
    /\ requests = <<>>
    /\ batchRequests = <<>>
    /\ nCreateBatch = 0
    /\ subret = NoReturn
    /\ submitted = <<>>
    /\ gwBatch = NoBatch
    /\ gwResults = <<>>
    /\ polls = <<>>
    /\ nGetBatch = 0
    /\ nGetResults = 0

XInit ==
    /\ xpc = "input"
    /\ content = <<>>
    /\ output = <<>>
    /\ message = <<>>
    /\ jsonout = <<>>
    /\ decoded = [err |-> Nil, val |-> NilPtr]
    /\ LIdle
    /\ BIdle
    /\ RIdle
    /\ OIdle

XInput ==
    /\ xpc = "input"
    /\ Len(content) < MaxLen
    /\ \E c \in Chars : content' = Append(content, c)
    /\ UNCHANGED <<xpc, output, message, jsonout, decoded, lvars, bvars, rvars, ovars>>

XClean ==
    /\ xpc = "input"
    /\ output' = cleanJsonOutput(content)
    /\ xpc' = "cleaned"
    /\ UNCHANGED <<content, message, jsonout, decoded, lvars, bvars, rvars, ovars>>

XExtract ==
    /\ xpc = "cleaned"
    /\ message' = extractJSONAndComment(output)[1]
    /\ jsonout' = extractJSONAndComment(output)[2]
    /\ xpc' = "extracted"
    /\ UNCHANGED <<content, output, decoded, lvars, bvars, rvars, ovars>>

XDecode ==
    /\ xpc = "extracted"
    /\ decoded' = JsonUnmarshal(jsonout)
    /\ xpc' = "decoded"
    /\ UNCHANGED <<content, output, message, jsonout, lvars, bvars, rvars, ovars>>

XNext == XInput \/ XClean \/ XExtract \/ XDecode

ExtractSpec == XInit /\ [][XNext]_vars

\* ------------------------------------------------------------- prompt
\* a template is the sequence of its actions and texts; "{{" is an action
\* that is not closed, "{{.Nope}}" names no field of structuredCallParams
DefaultStructuredCallPrompt ==
    <<"{{.OutputTemplate}}", "{{.Prompt}}", "{{if gt .MaxToolCalls 0}}", "{{.Context}}">>

\* PromptOverride is Nil (no map, or no entry "structured_call") or the
\* template of the entry
getStructuredCallPrompt(r) ==
    IF r.PromptOverride = Nil THEN DefaultStructuredCallPrompt ELSE r.PromptOverride

\* template.New("prompt").Parse(t): the error, Nil when there is none
TemplateParse(t) ==
    IF \E i \in 1..Len(t) : t[i] = "{{"
    THEN <<"template: prompt:1: unclosed action">>
    ELSE Nil

Digits == <<"1", "2", "3", "4">>

\* what one action or text of a template writes for the parameters p
ExecuteOne(tok, p) ==
    CASE tok = "{{.OutputTemplate}}" -> <<p.OutputTemplate>>
      [] tok = "{{.Prompt}}" -> <<p.Prompt>>
      [] tok = "{{.Context}}" -> <<p.Context>>
      [] tok = "{{if gt .MaxToolCalls 0}}" ->
            IF p.MaxToolCalls > 0
            THEN <<"Max at most ", Digits[p.MaxToolCalls], " tool calls.">>
            ELSE <<>>
      [] OTHER -> <<tok>>

RECURSIVE ExecuteAll(_, _)
ExecuteAll(t, p) ==
    IF t = <<>> THEN <<>> ELSE ExecuteOne(Head(t), p) \o ExecuteAll(Tail(t), p)

\* templ.Execute(buf, params): the text written and the error
TemplateExecute(t, p) ==
    IF \E i \in 1..Len(t) : t[i] = "{{.Nope}}"
    THEN [out |-> <<>>, err |-> <<"template: prompt:1: can't evaluate field Nope">>]
    ELSE [out |-> ExecuteAll(t, p), err |-> Nil]

\* ospec, the rendering of the output type
OutputSpec == "ospec"

\* renderOutputSpec(new(T)) for the type T: a struct json.Marshal can
\* write, a type with DescribeType, a type json.Marshal refuses
renderOutputSpec(t) ==
    CASE t = "custom" -> [out |-> "described", err |-> Nil]
      [] t = "chan" -> [out |-> "", err |-> <<"json: unsupported type: chan int">>]
      [] OTHER -> [out |-> OutputSpec, err |-> Nil]

\* ------------------------------------------------------------- turn loop
\* req.Tools: the tools of the request, in order
ReqTools == <<[Name |-> "lookup"]>>

\* tooldefs: one declaration per tool of the request
ToolDefs == [i \in 1..Len(ReqTools) |-> [Type |-> "function", Name |-> ReqTools[i].Name]]

\* what a tool function may return: (resp, nil) or ("", err)
ToolOutcomes ==
    {[resp |-> <<"r">>, err |-> Nil], [resp |-> <<>>, err |-> <<"boom">>]}

\* the calls a model may ask for: a known tool with arguments that decode,
\* a known tool with arguments that do not, an unknown tool
CallKinds ==
    {[Name |-> "lookup", Arguments |-> <<"{", "}">>],
     [Name |-> "lookup", Arguments |-> <<"{">>],
     [Name |-> "nope", Arguments |-> <<"{", "}">>]}

\* the tool calls of one assistant message, the k-th with its own ID
ToolCallLists(turn) ==
    UNION {{[k \in 1..n |-> [ID |-> <<"call", turn, k>>,
                             Name |-> f[k].Name,
                             Arguments |-> f[k].Arguments]] :
              f \in [1..n -> CallKinds]} : n \in 1..MaxCalls}

\* the texts a model may end with
FinalContents ==
    {<<"{", Member, "}">>,
     <<"a", "\n", "{", "}">>,
     <<"a">>,
     <<"{">>,
     <<FenceJson, "\n", "{", "}", "\n", Fence>>,
     <<" ", "{", "}", "a">>}

GatewayErrors == {<<"gateway: timeout">>}

\* req.Prompt and req.Context of the call
ReqPrompt == "p"
ReqContext == "c"

\* the parameters the template of the call is executed with
CallParams(ospec, budget) ==
    [OutputTemplate |-> ospec, Prompt |-> ReqPrompt, Context |-> ReqContext,
     MaxToolCalls |-> budget]

\* m: the user message, its content what the template wrote
UserMessageOf(override, ospec, budget) ==
    [Role |-> "user",
     Content |-> TemplateExecute(IF override = Nil THEN DefaultStructuredCallPrompt
                                 ELSE override,
                                 CallParams(ospec, budget)).out,
     ToolCalls |-> <<>>, ToolCallID |-> Nil]

\* the first tool of the list with the call's name, 0 when there is none
RECURSIVE FindTool(_, _, _)
FindTool(tools, name, i) ==
    IF i > Len(tools) THEN 0
    ELSE IF tools[i].Name = name THEN i
    ELSE FindTool(tools, name, i + 1)

\* HandleToolCall(tools, call), the tool function returning out when it is
\* called: [resp, err, invoked]
HandleToolCall(tools, call, out) ==
    IF FindTool(tools, call.Name, 1) = 0
    THEN [resp |-> <<>>, err |-> <<"no such tool ", call.Name>>, invoked |-> FALSE]
    ELSE IF JsonUnmarshal(call.Arguments).err # Nil
    THEN [resp |-> <<>>,
          err |-> <<"invalid arguments: ">> \o JsonUnmarshal(call.Arguments).err,
          invoked |-> FALSE]
    ELSE IF out.err # Nil
    THEN [resp |-> <<>>,
          err |-> <<"tool invocation failed: ">> \o out.err,
          invoked |-> TRUE]
    ELSE [resp |-> out.resp, err |-> Nil, invoked |-> TRUE]

\* toolresp = fmt.Sprintf("Error: %v", err)
ToolErrorText(err) == <<"Error: ">> \o err

\* a slip: the tools are declared on every turn
DeclareTools_Always(budget) == TRUE

\* if req.MaxToolCalls > 0 { glreq.Tools = tooldefs; glreq.ToolChoice = "auto" }
DeclareTools(budget) == budget > 0

\* a slip: the loop over the calls is never left early
BudgetSpent_Never(budget) == FALSE

\* if req.MaxToolCalls <= 0 { break }
BudgetSpent(budget) == budget <= 0

\* a slip: the budget is left as it is
DecrementBudget_Never(budget, err) == budget

\* a slip: a call that failed is not counted
DecrementBudget_OnlyOnSuccess(budget, err) == IF err # Nil THEN budget ELSE budget - 1

\* req.MaxToolCalls--, after the tool message of a call that returned err
DecrementBudget(budget, err) == budget - 1

\* a slip: the history is kept to a window, the oldest message is dropped
AppendMessage_DropOldest(h, m) == Append(Tail(h), m)

\* msgs = append(msgs, m)
AppendMessage(h, m) == Append(h, m)

\* the earlier revisions: return nil, fmt.Errorf("tool call failed: %w", err)
AfterToolCall_AbortOnError(err, budget, last) ==
    IF err # Nil THEN "failed"
    ELSE IF budget <= 0 \/ last THEN "chat" ELSE "tools"

\* where the run is after a tool call that returned err, with the budget
\* left and whether the call was the last of mm.ToolCalls: the error is sent
\* to the model, the loop over the calls goes on or is left
AfterToolCall(err, budget, last) ==
    IF BudgetSpent(budget) \/ last THEN "chat" ELSE "tools"

\* the error wrapped, as the batch calls wrap theirs
GatewayFailure_Wrapped(err) ==
    [out |-> NilPtr, err |-> <<"chat completion failed: ">> \o err]

\* return nil, err
GatewayFailure(err) == [out |-> NilPtr, err |-> err]

\* the earlier revisions: return nil, err
ParseError_BareCause(err, out) == err

\* fmt.Errorf("failed to parse JSON output: %w (output was: %s)", err, output)
ParseError(err, out) ==
    <<"failed to parse JSON output: ">> \o err \o <<" (output was: ">> \o out \o <<")">>

\* the branch len(mm.ToolCalls) == 0: what is returned for the reply r, with
\* the history h
Finish(r, h) ==
    LET out == cleanJsonOutput(r.Message.Content)
        ex == extractJSONAndComment(out)
        d == JsonUnmarshal(ex[2])
    IN  IF d.err # Nil
        THEN [out |-> NilPtr, err |-> ParseError(d.err, out)]
        ELSE [out |-> [Output |-> d.val,
                       ModelComment |-> ex[1],
                       RawResponse |-> r,
                       InputMessages |-> h],
              err |-> Nil]

Budgets == 0..MaxBudget

\* the state when the for loop is entered, for a request without system
\* instructions and without prefill: the user message is in msgs
LInit ==
    /\ pc = "chat"
    /\ MaxToolCalls \in Budgets
    /\ System = ""
    /\ MessagePrefill = <<>>
    /\ PromptOverride = Nil
    /\ OutputType = "struct"
    /\ cancelled = FALSE
    /\ initBudget = MaxToolCalls
    /\ msgs = <<UserMessageOf(Nil, OutputSpec, MaxToolCalls)>>
    /\ glreq = NoRequest
    /\ resp = NoResponse
    /\ mm = NoMessage
    /\ tci = 0
    /\ toolresp = <<>>
    /\ tcerr = Nil
    /\ ret = NoReturn
    /\ turnBudget = 0
    /\ nChat = 0
    /\ nInvoked = 0
    /\ turnInvoked = 0
    /\ nAnswered = 0
    /\ XIdle
    /\ BIdle
    /\ RIdle
    /\ OIdle

\* the request of this turn
Request ==
    [System |-> System,
     Messages |-> msgs,
     Tools |-> IF DeclareTools(MaxToolCalls) THEN ToolDefs ELSE <<>>,
     ToolChoice |-> IF DeclareTools(MaxToolCalls) THEN "auto" ELSE ""]

\* resp, err := c.ollmc.ChatCompletion(glreq); err != nil
ChatFails ==
    /\ pc = "chat"
    /\ nChat < MaxTurns
    /\ \E e \in GatewayErrors :
          /\ resp' = [err |-> e, Message |-> NoMessage]
          /\ ret' = GatewayFailure(e)
    /\ glreq' = Request
    /\ nChat' = nChat + 1
    /\ pc' = "failed"
    /\ toolresp' = <<>>
    /\ tcerr' = Nil
    /\ UNCHANGED <<MaxToolCalls, System, MessagePrefill, PromptOverride, OutputType,
                   cancelled, msgs, mm, tci, initBudget, turnBudget, nInvoked,
                   turnInvoked, nAnswered, xvars, bvars, rvars, ovars>>

\* the model answers without tool calls: decode and return
ChatFinal ==
    /\ pc = "chat"
    /\ nChat < MaxTurns
    /\ \E c \in FinalContents :
          LET r == [err |-> Nil,
                    Message |-> [Role |-> "assistant", Content |-> c,
                                 ToolCalls |-> <<>>, ToolCallID |-> Nil]]
          IN  /\ resp' = r
              /\ mm' = r.Message
              /\ ret' = Finish(r, msgs)
              /\ pc' = IF Finish(r, msgs).err # Nil THEN "failed" ELSE "done"
    /\ glreq' = Request
    /\ nChat' = nChat + 1
    /\ toolresp' = <<>>
    /\ tcerr' = Nil
    /\ UNCHANGED <<MaxToolCalls, System, MessagePrefill, PromptOverride, OutputType,
                   cancelled, msgs, tci, initBudget, turnBudget, nInvoked,
                   turnInvoked, nAnswered, xvars, bvars, rvars, ovars>>

\* the model asks for tool calls: msgs = append(msgs, mm), then the loop
\* over mm.ToolCalls begins
ChatToolCalls ==
    /\ pc = "chat"
    /\ nChat < MaxTurns
    /\ \E tcs \in ToolCallLists(nChat + 1) :
          LET m == [Role |-> "assistant", Content |-> <<>>,
                    ToolCalls |-> tcs, ToolCallID |-> Nil]
          IN  /\ resp' = [err |-> Nil, Message |-> m]
              /\ mm' = m
              /\ msgs' = AppendMessage(msgs, m)
    /\ glreq' = Request
    /\ nChat' = nChat + 1
    /\ tci' = 1
    /\ turnBudget' = MaxToolCalls
    /\ nAnswered' = 0
    /\ turnInvoked' = 0
    /\ toolresp' = <<>>
    /\ tcerr' = Nil
    /\ pc' = "tools"
    /\ UNCHANGED <<MaxToolCalls, System, MessagePrefill, PromptOverride, OutputType,
                   cancelled, ret, initBudget,
                   nInvoked, xvars, bvars, rvars, ovars>>

\* one pass of the loop over mm.ToolCalls
ToolCallStep ==
    /\ pc = "tools"
    /\ \E out \in ToolOutcomes :
          LET tc == mm.ToolCalls[tci]
              h == HandleToolCall(ReqTools, tc, out)
              text == IF h.err # Nil THEN ToolErrorText(h.err) ELSE h.resp
          IN  /\ toolresp' = text
              /\ tcerr' = h.err
              /\ nInvoked' = IF h.invoked THEN nInvoked + 1 ELSE nInvoked
              /\ turnInvoked' = IF h.invoked THEN turnInvoked + 1 ELSE turnInvoked
              /\ pc' = AfterToolCall(h.err, DecrementBudget(MaxToolCalls, h.err),
                                      tci = Len(mm.ToolCalls))
              /\ MaxToolCalls' = DecrementBudget(MaxToolCalls, h.err)
              /\ tci' = IF BudgetSpent(DecrementBudget(MaxToolCalls, h.err))
                           \/ tci = Len(mm.ToolCalls)
                        THEN tci ELSE tci + 1
              /\ msgs' = AppendMessage(msgs, [Role |-> "tool", Content |-> text,
                                              ToolCalls |-> <<>>, ToolCallID |-> tc.ID])
    /\ nAnswered' = nAnswered + 1
    /\ UNCHANGED <<System, MessagePrefill, PromptOverride, OutputType,
                   cancelled, glreq, resp, mm, ret, initBudget,
                   turnBudget, nChat, xvars, bvars, rvars, ovars>>

Next == ChatFails \/ ChatFinal \/ ChatToolCalls \/ ToolCallStep

Spec == LInit /\ [][Next]_vars

\* ------------------------------------------------------------- the call
\* the histories a caller may pass as req.MessagePrefill
CallerPrefill ==
    <<[Role |-> "user", Content |-> <<"earlier">>, ToolCalls |-> <<>>, ToolCallID |-> Nil],
      [Role |-> "assistant", Content |-> <<"reply">>, ToolCalls |-> <<>>,
       ToolCallID |-> Nil]>>

Prefills == {<<>>, CallerPrefill}

Systems == {"", "sys"}

\* no override, one that does not parse, one that does not execute
Overrides == {Nil, <<"{{.Prompt}}", "{{">>, <<"{{.Nope}}">>}

OutputTypes == {"struct", "chan"}

\* a slip: the error of the template is dropped and the run goes on
ConfigError_Ignored(t, override, budget) == Nil

\* the error the code before the for loop returns for the type t, the
\* override and the budget, Nil when it returns none
ConfigError(t, override, budget) ==
    LET templ == IF override = Nil THEN DefaultStructuredCallPrompt ELSE override
        ex == TemplateExecute(templ, CallParams(renderOutputSpec(t).out, budget))
    IN  IF renderOutputSpec(t).err # Nil THEN renderOutputSpec(t).err
        ELSE IF TemplateParse(templ) # Nil
        THEN <<"failed to parse prompt template: ">> \o TemplateParse(templ)
        ELSE IF ex.err # Nil
        THEN <<"prompt template execution failed: ">> \o ex.err
        ELSE Nil

\* msgs before the user message: the prefill, or the system message, or
\* nothing
SeedMessages(prefill, system) ==
    IF Len(prefill) > 0 THEN prefill
    ELSE IF system # ""
    THEN <<[Role |-> "system", Content |-> <<system>>,
            ToolCalls |-> <<>>, ToolCallID |-> Nil]>>
    ELSE <<>>

\* ModelCallStructured is entered with a request and a context
CallEntry ==
    /\ pc = "setup"
    /\ MaxToolCalls \in Budgets
    /\ System \in Systems
    /\ MessagePrefill \in Prefills
    /\ PromptOverride \in Overrides
    /\ OutputType \in OutputTypes
    /\ cancelled = FALSE
    /\ initBudget = MaxToolCalls
    /\ msgs = <<>>
    /\ glreq = NoRequest
    /\ resp = NoResponse
    /\ mm = NoMessage
    /\ tci = 0
    /\ toolresp = <<>>
    /\ tcerr = Nil
    /\ ret = NoReturn
    /\ turnBudget = 0
    /\ nChat = 0
    /\ nInvoked = 0
    /\ turnInvoked = 0
    /\ nAnswered = 0
    /\ XIdle
    /\ BIdle
    /\ RIdle

CInit ==
    /\ CallEntry
    /\ OIdle

\* the code before the for loop returns an error
SetupFails ==
    /\ pc = "setup"
    /\ ConfigError(OutputType, PromptOverride, MaxToolCalls) # Nil
    /\ ret' = [out |-> NilPtr, err |-> ConfigError(OutputType, PromptOverride, MaxToolCalls)]
    /\ pc' = "failed"
    /\ UNCHANGED <<MaxToolCalls, System, MessagePrefill, PromptOverride, OutputType,
                   cancelled, msgs, glreq, resp, mm, tci, toolresp, tcerr, initBudget,
                   turnBudget, nChat, nInvoked, turnInvoked, nAnswered, xvars, bvars, rvars, ovars>>

\* the code before the for loop: msgs is seeded and the user message is
\* appended
Setup ==
    /\ pc = "setup"
    /\ ConfigError(OutputType, PromptOverride, MaxToolCalls) = Nil
    /\ msgs' = AppendMessage(SeedMessages(MessagePrefill, System),
                             UserMessageOf(PromptOverride,
                                           renderOutputSpec(OutputType).out,
                                           MaxToolCalls))
    /\ pc' = "chat"
    /\ UNCHANGED <<MaxToolCalls, System, MessagePrefill, PromptOverride, OutputType,
                   cancelled, glreq, resp, mm, tci,
                   toolresp, tcerr, ret, initBudget, turnBudget, nChat, nInvoked,
                   turnInvoked, nAnswered, xvars, bvars, rvars, ovars>>

\* the caller cancels ctx while the call is running
Cancel ==
    /\ pc \in {"setup", "chat", "tools"}
    /\ ~cancelled
    /\ cancelled' = TRUE
    /\ UNCHANGED <<pc, MaxToolCalls, System, MessagePrefill, PromptOverride, OutputType,
                   msgs, glreq, resp, mm, tci,
                   toolresp, tcerr, ret, initBudget, turnBudget, nChat, nInvoked,
                   turnInvoked, nAnswered, xvars, bvars, rvars, ovars>>

CNext == SetupFails \/ Setup \/ Cancel \/ ChatFails \/ ChatFinal \/ ChatToolCalls \/ ToolCallStep

CallSpec == CInit /\ [][CNext]_vars

\* the calls with a request that has neither system instructions nor a
\* prefill, and a context that is never cancelled
SetupInit ==
    /\ CInit
    /\ System = ""
    /\ MessagePrefill = <<>>

SetupNext == SetupFails \/ Setup \/ ChatFails \/ ChatFinal \/ ChatToolCalls \/ ToolCallStep

SetupSpec == SetupInit /\ [][SetupNext]_vars

\* ------------------------------------------------------------- two calls
\* ModelCallStructured runs on a request while a second call runs on
\* another request of the same caller, whose MessagePrefill is the same slice

\* req.Prompt of the other request
OtherPrompt == "q"

\* m of the other call
OtherUserMessage(budget) ==
    [Role |-> "user",
     Content |-> TemplateExecute(DefaultStructuredCallPrompt,
                                 [CallParams(OutputSpec, budget)
                                     EXCEPT !.Prompt = OtherPrompt]).out,
     ToolCalls |-> <<>>, ToolCallID |-> Nil]

\* msgs is still a slice of the caller's array: the prefill had room for one
\* more element, and msgs holds the prefill and the user message
InPlace ==
    /\ PrefillSpare
    /\ pc # "setup"
    /\ Len(msgs) = Len(MessagePrefill) + 1

\* the array behind msgs after the other call's append(msgs, m): with room
\* in the caller's array the element after the prefill is written there,
\* without room the other call appends to a copy of its own
OtherAppend(ms, inplace, m) ==
    IF inplace THEN [ms EXCEPT ![Len(ms)] = m] ELSE ms

ConcInit ==
    /\ CallEntry
    /\ System = ""
    /\ MessagePrefill = CallerPrefill
    /\ PromptOverride = Nil
    /\ OutputType = "struct"
    /\ PrefillSpare \in BOOLEAN
    /\ otherSetup = FALSE

\* the other call reaches msgs = append(msgs, m)
OtherRunSetup ==
    /\ ~otherSetup
    /\ otherSetup' = TRUE
    /\ \E b \in Budgets : msgs' = OtherAppend(msgs, InPlace, OtherUserMessage(b))
    /\ UNCHANGED <<pc, MaxToolCalls, System, MessagePrefill, PromptOverride, OutputType,
                   cancelled, glreq, resp, mm, tci, toolresp, tcerr, ret, initBudget,
                   turnBudget, nChat, nInvoked, turnInvoked, nAnswered, PrefillSpare,
                   xvars, bvars, rvars>>

ConcNext ==
    Setup \/ OtherRunSetup \/ ChatFails \/ ChatFinal \/ ChatToolCalls \/ ToolCallStep

ConcSpec == ConcInit /\ [][ConcNext]_vars

\* ------------------------------------------------------------- registry
\* the revision of gllm.go whose Client has the Tools map

\* the tools a caller may register or hand to a request; Func names the
\* function of the tool, which returns its own name when it is called
RegistryNames == {"lookup", "calc"}
ClientTools == [Name : RegistryNames, Func : {"f1", "f2"}]
RequestToolLists ==
    {<<>>, <<[Name |-> "lookup", Func |-> "g1"]>>, <<[Name |-> "fetch", Func |-> "g2"]>>}

\* the names a model may call
CalledNames == {"lookup", "calc", "fetch", "nope"}

\* a slip: a name already registered keeps its tool
SetTool_KeepFirst(m, t) ==
    [n \in DOMAIN m \cup {t.Name} |-> IF n \in DOMAIN m THEN m[n] ELSE t]

\* c.Tools[t.Name] = t
SetTool(m, t) ==
    [n \in DOMAIN m \cup {t.Name} |-> IF n = t.Name THEN t ELSE m[n]]

\* the orders in which range may visit the keys of a map
RangeOrders(m) ==
    {o \in [1..Cardinality(DOMAIN m) -> DOMAIN m] :
        \A i, j \in 1..Cardinality(DOMAIN m) : o[i] = o[j] => i = j}

\* a slip: the request's tools are put before the client's
MergeTools_RequestFirst(m, o, rt) ==
    rt \o [i \in 1..Len(o) |-> m[o[i]]]

\* tools after the two range loops: the client's tools in the order o, then
\* the request's
MergeTools(m, o, rt) ==
    [i \in 1..Len(o) |-> m[o[i]]] \o rt

\* t.GollamaToolDef() of every tool of the list
ToolDefsOf(ts) == [i \in 1..Len(ts) |-> [Type |-> "function", Name |-> ts[i].Name]]

\* what the function of the tool HandleToolCall picks returns
FuncOutcome(ts, name) ==
    IF FindTool(ts, name, 1) = 0 THEN [resp |-> <<>>, err |-> Nil]
    ELSE [resp |-> <<ts[FindTool(ts, name, 1)].Func>>, err |-> Nil]

RInit ==
    /\ rpc = "client"
    /\ Tools = <<>>
    /\ added = <<>>
    /\ reqTools = <<>>
    /\ merged = <<>>
    /\ tooldefs = <<>>
    /\ rcall = NoCall
    /\ handled = NoHandled
    /\ XIdle
    /\ LIdle
    /\ BIdle
    /\ OIdle

\* c.AddTool(t)
AddTool ==
    /\ rpc = "client"
    /\ Len(added) < MaxAdds
    /\ \E t \in ClientTools :
          /\ Tools' = SetTool(Tools, t)
          /\ added' = Append(added, t)
    /\ UNCHANGED <<rpc, reqTools, merged, tooldefs, rcall, handled,
                   xvars, lvars, bvars, ovars>>

\* ModelCallStructured builds tools and tooldefs
MergeStep ==
    /\ rpc = "client"
    /\ \E rt \in RequestToolLists, o \in RangeOrders(Tools) :
          /\ reqTools' = rt
          /\ merged' = MergeTools(Tools, o, rt)
          /\ tooldefs' = ToolDefsOf(MergeTools(Tools, o, rt))
    /\ rpc' = "merged"
    /\ UNCHANGED <<Tools, added, rcall, handled, xvars, lvars, bvars, ovars>>

\* the model asks for a tool and c.HandleToolCall(tools, tc) resolves it
ResolveStep ==
    /\ rpc = "merged"
    /\ \E n \in CalledNames :
          /\ rcall' = [Name |-> n, Arguments |-> <<"{", "}">>]
          /\ handled' = HandleToolCall(merged, [Name |-> n, Arguments |-> <<"{", "}">>],
                                       FuncOutcome(merged, n))
    /\ rpc' = "resolved"
    /\ UNCHANGED <<Tools, added, reqTools, merged, tooldefs, xvars, lvars, bvars, ovars>>

RNext == AddTool \/ MergeStep \/ ResolveStep

RegistrySpec == RInit /\ [][RNext]_vars

\* ------------------------------------------------------------- batch
\* a slip: every request gets the identifier of the first
CustomID_OfFirst(i) == <<"request-", 0>>

\* customID := fmt.Sprintf("request-%d", i)
CustomID(i) == <<"request-", i>>

TextBlock(t) == [Type |-> "text", Text |-> t]

\* what the gateway may report for one item: its type, message and error
ItemOutcomes ==
    {[Type |-> "succeeded", Message |-> NilPtr, Error |-> NilPtr],
     [Type |-> "succeeded", Message |-> [Content |-> <<>>], Error |-> NilPtr],
     [Type |-> "succeeded",
      Message |-> [Content |-> <<TextBlock(<<"{", Member, "}">>)>>],
      Error |-> NilPtr],
     [Type |-> "succeeded",
      Message |-> [Content |-> <<TextBlock(<<"a", "\n">>), TextBlock(<<"{", "}">>)>>],
      Error |-> NilPtr],
     [Type |-> "succeeded",
      Message |-> [Content |-> <<TextBlock(<<"a">>)>>],
      Error |-> NilPtr],
     [Type |-> "succeeded",
      Message |-> [Content |-> <<TextBlock(<<"{">>)>>],
      Error |-> NilPtr],
     [Type |-> "succeeded",
      Message |-> [Content |-> <<[Type |-> "thinking", Text |-> <<"{", "}">>]>>],
      Error |-> NilPtr],
     [Type |-> "errored", Message |-> NilPtr,
      Error |-> [Type |-> "server_error", Message |-> <<"overloaded">>]],
     [Type |-> "canceled", Message |-> NilPtr, Error |-> NilPtr],
     [Type |-> "expired", Message |-> NilPtr, Error |-> NilPtr]}

\* the result lists the gateway may hold for the submitted requests: one
\* result for each, in any order
ResultLists(ids) ==
    LET n == Len(ids)
        Perms == {f \in [1..n -> 1..n] : \A i, j \in 1..n : f[i] = f[j] => i = j}
    IN  {[k \in 1..n |-> [CustomID |-> ids[f[k]],
                          Type |-> o[k].Type,
                          Message |-> o[k].Message,
                          Error |-> o[k].Error]] :
            f \in Perms, o \in [1..n -> ItemOutcomes]}

CountOf(results, type) == Cardinality({k \in 1..Len(results) : results[k].Type = type})

\* for _, block := range Content { if block.Type == "text" { contentText += block.Text } }
RECURSIVE ContentText(_)
ContentText(blocks) ==
    IF blocks = <<>> THEN <<>>
    ELSE (IF Head(blocks).Type = "text" THEN Head(blocks).Text ELSE <<>>)
         \o ContentText(Tail(blocks))

\* a slip: every local error has the same type
BatchError_OneType(type, msg) == [Type |-> "error", Message |-> msg]

\* &gollama.BatchError{Type: type, Message: msg}
BatchError(type, msg) == [Type |-> type, Message |-> msg]

\* a slip: br.Output = &outv also when the payload does not parse
ItemOutput_AlsoOnError(d) == IF d.err # Nil THEN [A |-> 0] ELSE d.val

\* if err := json.Unmarshal(...); err != nil { ... } else { br.Output = &outv }
ItemOutput(d) == IF d.err # Nil THEN NilPtr ELSE d.val

\* the body of the loop over results: the BatchResult of one result
BatchResultOf(result) ==
    LET br == [CustomID |-> result.CustomID, ResultType |-> result.Type,
               Output |-> NilPtr, ModelComment |-> <<>>, Error |-> NilPtr]
    IN  IF result.Type = "succeeded"
        THEN IF result.Message = NilPtr
             THEN [br EXCEPT !.Error =
                      BatchError("missing_message",
                                 <<"result marked as succeeded but message is nil">>)]
             ELSE IF Len(result.Message.Content) = 0
             THEN [br EXCEPT !.Error =
                      BatchError("missing_content",
                                 <<"result marked as succeeded but no content returned">>)]
             ELSE LET out == cleanJsonOutput(ContentText(result.Message.Content))
                      ex == extractJSONAndComment(out)
                  IN  IF ex[2] = <<>>
                      THEN [br EXCEPT !.ModelComment = ex[1],
                                      !.Error = BatchError("no_json_output",
                                                  <<"no JSON output found in response">>)]
                      ELSE IF JsonUnmarshal(ex[2]).err # Nil
                      THEN [br EXCEPT !.ModelComment = ex[1],
                                      !.Output = ItemOutput(JsonUnmarshal(ex[2])),
                                      !.Error = BatchError("parsing_error",
                                                  <<"failed to parse JSON output: ">>
                                                  \o JsonUnmarshal(ex[2]).err)]
                      ELSE [br EXCEPT !.ModelComment = ex[1],
                                      !.Output = ItemOutput(JsonUnmarshal(ex[2]))]
        ELSE IF result.Type = "errored"
        THEN [br EXCEPT !.Error = result.Error]
        ELSE br

\* a slip: the loop is left at the first item that has an error
RECURSIVE ReconcileResults_StopAtError(_, _)
ReconcileResults_StopAtError(results, acc) ==
    IF results = <<>> THEN acc
    ELSE IF BatchResultOf(Head(results)).Error # NilPtr THEN acc
    ELSE ReconcileResults_StopAtError(Tail(results),
                                      Append(acc, BatchResultOf(Head(results))))

\* for _, result := range results { ...; batchResults = append(batchResults, br) }
RECURSIVE ReconcileResults(_, _)
ReconcileResults(results, acc) ==
    IF results = <<>> THEN acc
    ELSE ReconcileResults(Tail(results), Append(acc, BatchResultOf(Head(results))))

\* a slip: the list of an earlier call is kept and appended to
StaleBatchResults ==
    IF polls # <<>> /\ polls[Len(polls)].err = Nil
    THEN polls[Len(polls)].resp.Results
    ELSE <<>>

\* var batchResults []*BatchResult[T]
FreshBatchResults == <<>>

\* a slip: only a batch in progress is returned without its results
NotEnded_OnlyInProgress(status) == status = "in_progress"

\* if batch.ProcessingStatus != "ended" { return response, nil }
NotEnded(status) == status # "ended"

\* the BatchResponse built from the batch the gateway returned
ResponseOf(batch) ==
    [BatchID |-> batch.ID,
     Status |-> batch.ProcessingStatus,
     RequestCounts |-> batch.RequestCounts,
     Results |-> <<>>,
     RawBatch |-> batch]

\* the messages of the batch request made from req
BatchMessages(req) ==
    LET seed == IF Len(req.MessagePrefill) > 0 THEN req.MessagePrefill
                ELSE IF req.System # ""
                THEN <<[Role |-> "system", Content |-> <<req.System>>,
                        ToolCalls |-> <<>>, ToolCallID |-> Nil]>>
                ELSE <<>>
        buf == TemplateExecute(getStructuredCallPrompt(req),
                               [OutputTemplate |-> OutputSpec, Prompt |-> req.Prompt,
                                Context |-> req.Context, MaxToolCalls |-> 0])
    IN  Append(seed, [Role |-> "user", Content |-> buf.out,
                      ToolCalls |-> <<>>, ToolCallID |-> Nil])

\* the loop over requests from the i-th on (i counts from 0), acc being
\* batchRequests so far: the list built, or the error returned
RECURSIVE BuildBatchRequests(_, _, _)
BuildBatchRequests(reqs, i, acc) ==
    IF i >= Len(reqs) THEN [reqs |-> acc, err |-> Nil]
    ELSE LET req == reqs[i + 1]
             t == getStructuredCallPrompt(req)
             params == [OutputTemplate |-> OutputSpec, Prompt |-> req.Prompt,
                        Context |-> req.Context, MaxToolCalls |-> 0]
         IN  IF TemplateParse(t) # Nil
             THEN [reqs |-> <<>>,
                   err |-> <<"failed to parse prompt template for request ", Digits[i + 1], ": ">>
                           \o TemplateParse(t)]
             ELSE IF TemplateExecute(t, params).err # Nil
             THEN [reqs |-> <<>>,
                   err |-> <<"prompt template execution failed for request ", Digits[i + 1], ": ">>
                           \o TemplateExecute(t, params).err]
             ELSE BuildBatchRequests(reqs, i + 1,
                      Append(acc, [CustomID |-> CustomID(i),
                                   Messages |-> BatchMessages(req)]))

\* msgs = req.MessagePrefill shares the array of the caller's slice, and
\* append writes into that array when the slice has capacity to spare
\* (PrefillSpare), so the requests that hold such a slice of the caller's
\* one array all write their user message to the same element: when the
\* loop is over, and CreateBatch reads the entries, the element holds the
\* user message of the last of them
LastSpare(reqs) ==
    LET S == {i \in 1..Len(reqs) : Len(reqs[i].MessagePrefill) > 0 /\ reqs[i].PrefillSpare}
    IN  IF S = {} THEN 0 ELSE CHOOSE i \in S : \A j \in S : j <= i

\* batchRequests as CreateBatch reads it
AtCreateBatch(entries, reqs) ==
    [i \in 1..Len(entries) |->
        IF Len(reqs[i].MessagePrefill) > 0 /\ reqs[i].PrefillSpare
        THEN [entries[i] EXCEPT !.Messages =
                 Append(reqs[i].MessagePrefill,
                        entries[LastSpare(reqs)].Messages[
                            Len(entries[LastSpare(reqs)].Messages)])]
        ELSE entries[i]]

\* the requests a caller may put in a batch: with and without system
\* instructions, with an override that does not parse, with one that does
\* not execute
BatchRequestKinds ==
    {[System |-> "", Prompt |-> "p", Context |-> "c",
      MessagePrefill |-> <<>>, PrefillSpare |-> FALSE, PromptOverride |-> Nil],
     [System |-> "sys", Prompt |-> "p", Context |-> "c",
      MessagePrefill |-> <<>>, PrefillSpare |-> FALSE, PromptOverride |-> Nil],
     [System |-> "", Prompt |-> "p", Context |-> "c",
      MessagePrefill |-> <<>>, PrefillSpare |-> FALSE, PromptOverride |-> <<"{{.Prompt}}", "{{">>],
     [System |-> "", Prompt |-> "p", Context |-> "c",
      MessagePrefill |-> <<>>, PrefillSpare |-> FALSE, PromptOverride |-> <<"{{.Nope}}">>]}

ItemCounts == 0..MaxItems

\* the lists a caller may pass: only the first request of a list may have
\* system instructions, which tells it from the requests after it
RequestLists ==
    {reqs \in UNION {[1..n -> BatchRequestKinds] : n \in ItemCounts} :
        \A i \in 2..Len(reqs) : reqs[i].System = ""}

\* a slip: the list is not looked at
NoRequests_Unchecked(reqs) == FALSE

\* if len(requests) == 0
NoRequests(reqs) == Len(reqs) = 0

\* the batch the gateway makes of the requests it received
NewBatch(n) ==
    [ID |-> "batch-1",
     ProcessingStatus |-> "in_progress",
     RequestCounts |-> [Processing |-> n, Succeeded |-> 0,
                        Errored |-> 0, Canceled |-> 0, Expired |-> 0]]

BInit ==
    /\ bpc = "start"
    /\ requests \in RequestLists
    /\ batchRequests = <<>>
    /\ nCreateBatch = 0
    /\ subret = NoReturn
    /\ submitted = <<>>
    /\ gwBatch = NoBatch
    /\ gwResults = <<>>
    /\ polls = <<>>
    /\ nGetBatch = 0
    /\ nGetResults = 0
    /\ XIdle
    /\ LIdle
    /\ RIdle
    /\ OIdle

\* ModelCallStructuredBatch: the list is empty
SubmitNoRequests ==
    /\ bpc = "start"
    /\ NoRequests(requests)
    /\ subret' = [out |-> NilPtr, err |-> <<"no requests provided">>]
    /\ bpc' = "failed"
    /\ UNCHANGED <<requests, batchRequests, nCreateBatch, submitted, gwBatch, gwResults, polls,
                   nGetBatch, nGetResults, xvars, lvars, rvars, ovars>>

\* ModelCallStructuredBatch: the template of a request fails
SubmitTemplateFails ==
    /\ bpc = "start"
    /\ ~NoRequests(requests)
    /\ BuildBatchRequests(requests, 0, <<>>).err # Nil
    /\ subret' = [out |-> NilPtr, err |-> BuildBatchRequests(requests, 0, <<>>).err]
    /\ bpc' = "failed"
    /\ UNCHANGED <<requests, batchRequests, nCreateBatch, submitted, gwBatch, gwResults, polls,
                   nGetBatch, nGetResults, xvars, lvars, rvars, ovars>>

\* ModelCallStructuredBatch: CreateBatch fails
SubmitCreateBatchFails ==
    /\ bpc = "start"
    /\ ~NoRequests(requests)
    /\ BuildBatchRequests(requests, 0, <<>>).err = Nil
    /\ batchRequests' = AtCreateBatch(BuildBatchRequests(requests, 0, <<>>).reqs, requests)
    /\ \E e \in GatewayErrors :
          subret' = [out |-> NilPtr, err |-> <<"failed to create batch: ">> \o e]
    /\ nCreateBatch' = nCreateBatch + 1
    /\ bpc' = "failed"
    /\ UNCHANGED <<requests, submitted, gwBatch, gwResults, polls, nGetBatch, nGetResults,
                   xvars, lvars, rvars, ovars>>

\* ModelCallStructuredBatch: the batch is created
Submit ==
    /\ bpc = "start"
    /\ LET built == BuildBatchRequests(requests, 0, <<>>)
       IN  /\ ~NoRequests(requests)
           /\ built.err = Nil
           /\ batchRequests' = AtCreateBatch(built.reqs, requests)
           /\ submitted' = [i \in 1..Len(built.reqs) |-> built.reqs[i].CustomID]
           /\ gwBatch' = NewBatch(Len(built.reqs))
           /\ subret' = [out |-> ResponseOf(NewBatch(Len(built.reqs))), err |-> Nil]
    /\ nCreateBatch' = nCreateBatch + 1
    /\ bpc' = "ready"
    /\ UNCHANGED <<requests, gwResults, polls, nGetBatch, nGetResults, xvars, lvars, rvars, ovars>>

\* the gateway: a cancellation is asked for
GatewayCanceling ==
    /\ bpc = "ready"
    /\ gwBatch.ProcessingStatus = "in_progress"
    /\ gwBatch' = [gwBatch EXCEPT !.ProcessingStatus = "canceling"]
    /\ UNCHANGED <<bpc, requests, batchRequests, nCreateBatch, subret, submitted,
                   gwResults, polls, nGetBatch, nGetResults, xvars, lvars, rvars, ovars>>

\* the gateway: processing ends, every request has its result
GatewayEnds ==
    /\ bpc = "ready"
    /\ gwBatch.ProcessingStatus \in {"in_progress", "canceling"}
    /\ \E rs \in ResultLists(submitted) :
          /\ gwResults' = rs
          /\ gwBatch' = [gwBatch EXCEPT
                            !.ProcessingStatus = "ended",
                            !.RequestCounts =
                                [Processing |-> 0,
                                 Succeeded |-> CountOf(rs, "succeeded"),
                                 Errored |-> CountOf(rs, "errored"),
                                 Canceled |-> CountOf(rs, "canceled"),
                                 Expired |-> CountOf(rs, "expired")]]
    /\ UNCHANGED <<bpc, requests, batchRequests, nCreateBatch, subret, submitted,
                   polls, nGetBatch, nGetResults, xvars, lvars, rvars, ovars>>

CanPoll == bpc = "ready" /\ Len(polls) < MaxPolls

\* GetModelCallBatchResults: GetBatch fails
PollGetBatchFails ==
    /\ CanPoll
    /\ \E e \in GatewayErrors :
          polls' = Append(polls, [resp |-> NilPtr,
                                  err |-> <<"failed to get batch status: ">> \o e])
    /\ nGetBatch' = nGetBatch + 1
    /\ UNCHANGED <<bpc, requests, batchRequests, nCreateBatch, subret, submitted,
                   gwBatch, gwResults, nGetResults, xvars, lvars, rvars, ovars>>

\* GetModelCallBatchResults: the batch has not ended
PollNotEnded ==
    /\ CanPoll
    /\ NotEnded(gwBatch.ProcessingStatus)
    /\ polls' = Append(polls, [resp |-> ResponseOf(gwBatch), err |-> Nil])
    /\ nGetBatch' = nGetBatch + 1
    /\ UNCHANGED <<bpc, requests, batchRequests, nCreateBatch, subret, submitted,
                   gwBatch, gwResults, nGetResults, xvars, lvars, rvars, ovars>>

\* GetModelCallBatchResults: the batch has ended, GetBatchResults fails
PollGetResultsFails ==
    /\ CanPoll
    /\ ~NotEnded(gwBatch.ProcessingStatus)
    /\ \E e \in GatewayErrors :
          polls' = Append(polls, [resp |-> NilPtr,
                                  err |-> <<"failed to get batch results: ">> \o e])
    /\ nGetBatch' = nGetBatch + 1
    /\ nGetResults' = nGetResults + 1
    /\ UNCHANGED <<bpc, requests, batchRequests, nCreateBatch, subret, submitted,
                   gwBatch, gwResults, xvars, lvars, rvars, ovars>>

\* GetModelCallBatchResults: the batch has ended, every result is parsed
PollEnded ==
    /\ CanPoll
    /\ ~NotEnded(gwBatch.ProcessingStatus)
    /\ polls' = Append(polls,
                       [resp |-> [ResponseOf(gwBatch) EXCEPT
                                     !.Results = ReconcileResults(gwResults,
                                                                  FreshBatchResults)],
                        err |-> Nil])
    /\ nGetBatch' = nGetBatch + 1
    /\ nGetResults' = nGetResults + 1
    /\ UNCHANGED <<bpc, requests, batchRequests, nCreateBatch, subret, submitted,
                   gwBatch, gwResults, xvars, lvars, rvars, ovars>>

BNext ==
    \/ SubmitNoRequests
    \/ SubmitTemplateFails
    \/ SubmitCreateBatchFails
    \/ Submit
    \/ GatewayCanceling
    \/ GatewayEnds
    \/ PollGetBatchFails
    \/ PollNotEnded
    \/ PollGetResultsFails
    \/ PollEnded

BatchSpec == BInit /\ [][BNext]_vars

\* the submission alone, for requests of every kind: with and without
\* system instructions, two prompts, no prefill or the caller's prefill in
\* a slice with or without capacity to spare, an override or none
SubmitKinds ==
    {[System |-> sy, Prompt |-> pr, Context |-> "c", MessagePrefill |-> pf,
      PrefillSpare |-> sp, PromptOverride |-> ov] :
        sy \in Systems, pr \in {"p", "q"}, pf \in Prefills, sp \in BOOLEAN,
        ov \in {Nil, <<"{{.Prompt}}">>, <<"{{.Prompt}}", "{{">>}}

SubmitLists ==
    {reqs \in UNION {[1..n -> SubmitKinds] : n \in ItemCounts} :
        \A i \in 1..Len(reqs) : reqs[i].MessagePrefill = <<>> => ~reqs[i].PrefillSpare}

SubmitInit ==
    /\ bpc = "start"
    /\ requests \in SubmitLists
    /\ batchRequests = <<>>
    /\ nCreateBatch = 0
    /\ subret = NoReturn
    /\ submitted = <<>>
    /\ gwBatch = NoBatch
    /\ gwResults = <<>>
    /\ polls = <<>>
    /\ nGetBatch = 0
    /\ nGetResults = 0
    /\ XIdle
    /\ LIdle
    /\ RIdle
    /\ OIdle

SubmitNext == SubmitNoRequests \/ SubmitTemplateFails \/ SubmitCreateBatchFails \/ Submit

SubmitSpec == SubmitInit /\ [][SubmitNext]_vars

\* ------------------------------------------------------------- C6
\* position of the first "{" that opens a line of s, 0 when there is none
StartsLine(s, p) == s[p] = "{" /\ (p = 1 \/ s[p - 1] = "\n")
FirstBracePos(s) ==
    IF \E p \in 1..Len(s) : StartsLine(s, p)
    THEN CHOOSE p \in 1..Len(s) :
             StartsLine(s, p) /\ \A q \in 1..(p - 1) : ~StartsLine(s, q)
    ELSE 0

\* C6: for every cleaned text, extractJSONAndComment gives: empty comment
\* and the whole text when the text starts with "{"; else the text from the
\* first line starting with "{" onward as payload and the trimmed text
\* before that line as comment; else the whole text as comment and an empty
\* payload.
C6_ExtractCases ==
    xpc \in {"extracted", "decoded"} =>
        LET p == FirstBracePos(output)
        IN  /\ p = 1 => message = <<>> /\ jsonout = output
            /\ p > 1 => /\ jsonout = SubSeq(output, p, Len(output))
                        /\ message = TrimSpace(SubSeq(output, 1, p - 1))
            /\ p = 0 => message = output /\ jsonout = <<>>

\* a comment followed by a payload that is not on the last line
C6_Witness ==
    /\ xpc = "extracted"
    /\ FirstBracePos(output) > 1
    /\ \E q \in (FirstBracePos(output) + 1)..Len(output) : output[q] = "\n"
    /\ message # <<>>

\* ------------------------------------------------------------- C1..C5, C7
Terminal == pc \in {"done", "failed"}

\* sub occurs in text as a run of consecutive characters
Contains(text, sub) ==
    \E i \in 0..(Len(text) - Len(sub)) : SubSeq(text, i + 1, i + Len(sub)) = sub

IsErrorText(t) == HasPrefix(t, <<"Error: ">>) /\ Len(t) > 1

LastMsg == msgs[Len(msgs)]

\* C1: the number of tool functions called in a run never exceeds the
\* budget the run began with.
C1_InvocationsWithinBudget == nInvoked <= initBudget

\* C2: tool calls asked for on a turn that began with the budget at zero
\* are not executed, and each is answered with an error string, after which
\* the model is asked again.
C2_ExhaustedCallsRefused ==
    (turnBudget <= 0 /\ nAnswered > 0) =>
        /\ turnInvoked = 0
        /\ IsErrorText(toolresp)
        /\ pc = "chat" => nAnswered = Len(mm.ToolCalls)

\* C3: a tool call that fails (unknown tool, arguments that do not decode,
\* a failure of the tool function) does not end the run: the message
\* appended for it is a tool message with the call's ID and a non-empty
\* error string, nothing is returned, and the run is in the loop over the
\* calls or at the next ChatCompletion.
C3_ToolFailureContinues ==
    tcerr # Nil =>
        /\ pc \in {"tools", "chat"}
        /\ ret = NoReturn
        /\ LastMsg.Role = "tool"
        /\ LastMsg.Content = toolresp
        /\ IsErrorText(toolresp)
        /\ Contains(toolresp, tcerr)
        /\ LastMsg.ToolCallID = mm.ToolCalls[nAnswered].ID
        /\ pc = "chat" /\ nChat < MaxTurns => ENABLED (ChatFails \/ ChatFinal \/ ChatToolCalls)

\* the three kinds of failure, the last one with the budget spent
C3_Witness ==
    /\ tcerr # Nil
    /\ pc = "chat"
    /\ Contains(toolresp, <<"tool invocation failed: ">>)
    /\ \E i \in 1..Len(msgs) : Contains(msgs[i].Content, <<"no such tool ">>)
    /\ \E i \in 1..Len(msgs) : Contains(msgs[i].Content, <<"invalid arguments: ">>)

\* the comment and the payload of a cleaned text, by position
PayloadOf(out) ==
    IF FirstBracePos(out) = 0 THEN <<>>
    ELSE SubSeq(out, FirstBracePos(out), Len(out))
CommentOf(out) ==
    IF FirstBracePos(out) = 0 THEN out
    ELSE TrimSpace(SubSeq(out, 1, FirstBracePos(out) - 1))

FinalReply == nChat > 0 /\ resp.err = Nil /\ resp.Message.ToolCalls = <<>>

C4_Witness ==
    /\ pc = "done"
    /\ nChat = 2
    /\ ret.out.ModelComment # <<>>
    /\ ret.out.Output = [A |-> 0]

C5_GatewayFailurePropagates ==
    resp.err # Nil =>
        /\ pc = "failed"
        /\ ret = [out |-> NilPtr, err |-> resp.err]
        /\ ~ENABLED Next

\* the second ChatCompletion fails, after tool calls
C5_Witness ==
    /\ resp.err # Nil
    /\ nChat = 2
    /\ nInvoked > 0

\* what an error says apart from the text it echoes: the prefix and the cause
ErrorCondition(e) == SubSeq(e, 1, 2)

\* C7: the error for a final reply with no line beginning with "{" is
\* told apart from the error for a payload that was found and is
\* malformed.
C7_NoOutputDistinct ==
    (pc = "failed" /\ FinalReply /\ PayloadOf(cleanJsonOutput(resp.Message.Content)) = <<>>) =>
        \A c \in FinalContents :
            LET p == PayloadOf(cleanJsonOutput(c))
            IN  (p # <<>> /\ JsonUnmarshal(p).err # Nil) =>
                    ErrorCondition(ret.err) # ErrorCondition(ParseError(JsonUnmarshal(p).err, cleanJsonOutput(c)))

\* ------------------------------------------------------------- C8..C10
\* the calls that found the batch ended and returned its results
EndedPolls == {k \in 1..Len(polls) : polls[k].err = Nil /\ polls[k].resp.Status = "ended"}

\* the calls that failed in GetBatchResults
ResultsFailedPolls ==
    {k \in 1..Len(polls) :
        \E e \in GatewayErrors : polls[k].err = <<"failed to get batch results: ">> \o e}

\* the text of a gateway result, empty when it has no message
ResultText(r) == IF r.Message = NilPtr THEN <<>> ELSE ContentText(r.Message.Content)

\* C8: a call on an ended batch returns one entry for each submitted
\* request, with its CustomID; an item that fails does not end the loop
\* over the results, and the call fails only when a gateway call fails:
\* every call that got the results from the gateway returned them.
C8_OneEntryPerItem ==
    /\ \A k \in EndedPolls :
          LET rs == polls[k].resp.Results
          IN  /\ Len(rs) = Len(submitted)
              /\ \A i \in 1..Len(submitted) :
                    Cardinality({j \in 1..Len(rs) : rs[j].CustomID = submitted[i]}) = 1
    /\ \A k \in 1..Len(polls) :
          polls[k].err # Nil =>
              \E e \in GatewayErrors :
                  polls[k].err \in {<<"failed to get batch status: ">> \o e,
                                    <<"failed to get batch results: ">> \o e}
    /\ nGetResults = Cardinality(EndedPolls) + Cardinality(ResultsFailedPolls)

\* the first item fails to parse, the second is decoded, and the gateway
\* returned them in the reverse of the order submitted
C8_Witness ==
    \E k \in EndedPolls :
        LET rs == polls[k].resp.Results
        IN  /\ Len(rs) = 2
            /\ rs[1].CustomID = CustomID(1)
            /\ rs[1].Error # NilPtr
            /\ rs[1].Error.Type = "parsing_error"
            /\ rs[2].CustomID = CustomID(0)
            /\ rs[2].Output # NilPtr

\* C9: every entry has the outcome type the gateway reported for the item,
\* and a decoded payload exactly when the outcome is succeeded and the text
\* of the item holds a payload that decodes.
C9_OutcomeAndPayload ==
    \A k \in EndedPolls :
        LET rs == polls[k].resp.Results
        IN  /\ Len(rs) = Len(gwResults)
            /\ \A j \in 1..Len(rs) :
                  LET r == gwResults[j]
                      payload == PayloadOf(cleanJsonOutput(ResultText(r)))
                  IN  /\ rs[j].CustomID = r.CustomID
                      /\ rs[j].ResultType = r.Type
                      /\ rs[j].Output # NilPtr <=>
                            /\ r.Type = "succeeded"
                            /\ payload # <<>>
                            /\ JsonUnmarshal(payload).err = Nil
                      /\ r.Type \in {"errored", "canceled", "expired"} =>
                            rs[j].Output = NilPtr

\* a decoded item beside an errored one
C9_Witness ==
    \E k \in EndedPolls :
        LET rs == polls[k].resp.Results
        IN  /\ Len(rs) = 2
            /\ rs[1].ResultType = "succeeded"
            /\ rs[1].Output = [A |-> 1]
            /\ rs[2].ResultType = "errored"
            /\ rs[2].Error # NilPtr

\* C10: two calls on the same ended batch return the same results, and each
\* of them fetched the results from the gateway.
C10_PollIdempotent ==
    /\ \A i, j \in EndedPolls : polls[i].resp = polls[j].resp
    /\ nGetResults >= Cardinality(EndedPolls)

\* two calls on an ended batch with a decoded item
C10_Witness ==
    /\ Cardinality(EndedPolls) = 2
    /\ nGetResults = 2
    /\ \E j \in 1..Len(gwResults) : polls[2].resp.Results[j].Output # NilPtr

\* ------------------------------------------------------------- C11..C15
\* the calls that returned a batch that has not ended
NotEndedPolls ==
    {k \in 1..Len(polls) : polls[k].err = Nil /\ polls[k].resp.Status # "ended"}

\* C11: a call made while the gateway reports a status other than "ended"
\* makes no GetBatchResults call, and what it returns on success is the
\* batch's ID, status and request counts as the gateway holds them, with an
\* empty result list.
C11_NotEndedStatusOnly ==
    [][(Len(polls') = Len(polls) + 1 /\ gwBatch.ProcessingStatus # "ended") =>
          /\ nGetResults' = nGetResults
          /\ nGetBatch' = nGetBatch + 1
          /\ polls'[Len(polls')].err = Nil =>
                polls'[Len(polls')].resp =
                    [BatchID |-> gwBatch.ID,
                     Status |-> gwBatch.ProcessingStatus,
                     RequestCounts |-> gwBatch.RequestCounts,
                     Results |-> <<>>,
                     RawBatch |-> gwBatch]]_vars

\* a call on a batch being cancelled, then one on the batch ended
C11_Witness ==
    /\ Len(polls) = 2
    /\ polls[1].err = Nil
    /\ polls[1].resp.Status = "canceling"
    /\ polls[1].resp.Results = <<>>
    /\ polls[1].resp.RequestCounts.Processing = 2
    /\ polls[2].err = Nil
    /\ polls[2].resp.Status = "ended"
    /\ nGetResults = 1

\* C12: every call whose GetBatch succeeded returns a BatchResponse with
\* the status and the request counts of the batch, whatever GetBatchResults
\* and the parsing of the items do.
C12_StatusAlwaysReturned ==
    \A k \in 1..Len(polls) :
        ~HasPrefix(polls[k].err, <<"failed to get batch status: ">>) =>
            /\ polls[k].resp # NilPtr
            /\ polls[k].resp.Status = polls[k].resp.RawBatch.ProcessingStatus
            /\ polls[k].resp.RequestCounts = polls[k].resp.RawBatch.RequestCounts

\* C13: a submission of a list that is not empty fails only when
\* CreateBatch fails.
C13_OnlyCreateBatchFailsSubmission ==
    (bpc = "failed" /\ Len(requests) > 0) =>
        /\ nCreateBatch = 1
        /\ HasPrefix(subret.err, <<"failed to create batch: ">>)

\* C14: a submission of the empty list returns the error "no requests
\* provided" and no response, and makes no call to the gateway: no batch
\* exists afterwards.
C14_EmptyListRefused ==
    (bpc # "start" /\ Len(requests) = 0) =>
        /\ bpc = "failed"
        /\ subret = [out |-> NilPtr, err |-> <<"no requests provided">>]
        /\ nCreateBatch = 0
        /\ batchRequests = <<>>
        /\ gwBatch = NoBatch
        /\ nGetBatch = 0

\* the empty list was submitted
C14_Witness ==
    /\ bpc = "failed"
    /\ requests = <<>>
    /\ subret.err = <<"no requests provided">>

\* the last message of entry i is the user message made of request i
EntryOfRequest(entry, req) ==
    LET ms == entry.Messages
    IN  /\ ms # <<>>
        /\ ms[Len(ms)].Role = "user"
        /\ Contains(ms[Len(ms)].Content, <<req.Prompt>>)
        /\ (req.System # "") <=> (Len(ms) = 2 /\ ms[1].Role = "system"
                                   /\ ms[1].Content = <<req.System>>)
        /\ (req.System = "") <=> (Len(ms) = 1)

\* C15: a submission that succeeds has made one CreateBatch call, with one
\* entry for each request, in the order of the requests; entry i (from 0)
\* has the CustomID "request-i", and no two entries have the same CustomID.
C15_OneJobInOrder ==
    bpc = "ready" =>
        /\ Len(requests) >= 1
        /\ nCreateBatch = 1
        /\ Len(batchRequests) = Len(requests)
        /\ \A i \in 1..Len(requests) :
              /\ batchRequests[i].CustomID = <<"request-", i - 1>>
              /\ EntryOfRequest(batchRequests[i], requests[i])
        /\ \A i, j \in 1..Len(batchRequests) :
              batchRequests[i].CustomID = batchRequests[j].CustomID => i = j
        /\ submitted = [i \in 1..Len(requests) |-> batchRequests[i].CustomID]
        /\ subret.err = Nil
        /\ subret.out.BatchID = gwBatch.ID

\* two requests, the first with system instructions
C15_Witness ==
    /\ bpc = "ready"
    /\ Len(requests) = 2
    /\ requests[1].System = "sys"
    /\ Len(batchRequests[1].Messages) = 2
    /\ Len(batchRequests[2].Messages) = 1

\* ------------------------------------------------------------- C16..C20
IsPrefix(a, b) == Len(a) <= Len(b) /\ SubSeq(b, 1, Len(a)) = a

\* C16: every step of a run leaves the messages already in msgs as they
\* are and in their places: msgs before the step is a prefix of msgs after
\* it.
C16_HistoryAppendOnly == [][IsPrefix(msgs, msgs')]_vars

\* a history of two turns of tool calls
C16_Witness ==
    /\ nChat = 2
    /\ Len(msgs) >= 5
    /\ msgs[1].Role = "user"
    /\ msgs[Len(msgs)].Role = "tool"

\* C17: the request of every ChatCompletion call declares the tools, with
\* ToolChoice "auto", exactly when req.MaxToolCalls is positive at the call;
\* a run that began with the budget 0 never declares them, and the budget
\* never grows, so once it is spent no later request declares them.
C17_ToolsDeclaredIffBudget ==
    [][/\ MaxToolCalls' <= MaxToolCalls
       /\ nChat' = nChat + 1 =>
             /\ (glreq'.Tools # <<>>) <=> (MaxToolCalls > 0)
             /\ MaxToolCalls > 0 => (glreq'.Tools = ToolDefs /\ glreq'.ToolChoice = "auto")
             /\ MaxToolCalls <= 0 => glreq'.ToolChoice = ""
             /\ initBudget = 0 => glreq'.Tools = <<>>
             /\ glreq'.Messages = msgs]_vars

\* the budget of 1 is spent on the first turn, the second request is sent
\* without the tools
C17_Witness ==
    /\ nChat = 2
    /\ initBudget = 1
    /\ MaxToolCalls = 0
    /\ glreq.Tools = <<>>
    /\ Len(glreq.Messages) = 3

\* C18: once ctx is cancelled the run makes no ChatCompletion call, and the
\* messages already in msgs stay as they are.
C18_NoGatewayCallAfterCancel ==
    [][cancelled => (nChat' = nChat /\ IsPrefix(msgs, msgs'))]_vars

\* C19: msgs begins with the prefill when there is one, else with the
\* system message when req.System is set, else with nothing, and then the
\* user message; with a prefill, req.System is in no request sent.
C19_InitialConversation ==
    pc \notin {"setup", "failed"} \/ nChat > 0 =>
        /\ MessagePrefill # <<>> =>
              IsPrefix(Append(MessagePrefill,
                              UserMessageOf(PromptOverride, OutputSpec, initBudget)), msgs)
        /\ (MessagePrefill = <<>> /\ System # "") =>
              /\ Len(msgs) >= 2
              /\ msgs[1].Role = "system"
              /\ msgs[1].Content = <<System>>
              /\ msgs[2] = UserMessageOf(PromptOverride, OutputSpec, initBudget)
        /\ (MessagePrefill = <<>> /\ System = "") =>
              msgs[1] = UserMessageOf(PromptOverride, OutputSpec, initBudget)
        /\ (MessagePrefill # <<>> /\ nChat > 0) =>
              /\ glreq.System = ""
              /\ \A i \in 1..Len(glreq.Messages) : glreq.Messages[i].Role # "system"

\* the tool messages appended since mm arrived
TurnResults == SubSeq(msgs, Len(msgs) - nAnswered + 1, Len(msgs))

Min(a, b) == IF a < b THEN a ELSE b

\* C20: after a reply with n tool calls that arrived with the budget b >= 1,
\* msgs ends with the reply followed by the tool messages of the calls
\* handled so far, the k-th with the ID of the k-th call; no call is
\* invoked whose predecessors have not their message; at most min(n, b)
\* calls are handled, and exactly min(n, b) once the loop over the calls is
\* left.
C20_CallsInOrderUpToBudget ==
    (mm.ToolCalls # <<>> /\ turnBudget >= 1) =>
        LET n == Len(mm.ToolCalls)
        IN  /\ nAnswered <= Min(n, turnBudget)
            /\ Len(msgs) > nAnswered
            /\ msgs[Len(msgs) - nAnswered] = mm
            /\ \A k \in 1..nAnswered :
                  /\ TurnResults[k].Role = "tool"
                  /\ TurnResults[k].ToolCallID = mm.ToolCalls[k].ID
            /\ turnInvoked <= nAnswered
            /\ pc = "tools" => (tci = nAnswered + 1 /\ nAnswered < Min(n, turnBudget))
            /\ pc # "tools" => nAnswered = Min(n, turnBudget)

\* two calls asked for with a budget of 1: one is handled; and two calls
\* with a budget of 2: both are
C20_Witness ==
    /\ nChat = 1
    /\ pc = "chat"
    /\ Len(mm.ToolCalls) = 2
    /\ \/ turnBudget = 1 /\ nAnswered = 1 /\ turnInvoked = 1
       \/ turnBudget = 2 /\ nAnswered = 2 /\ turnInvoked = 2

\* ------------------------------------------------------------- C21..C27
\* the tool messages in a history
ToolMessages(h) == {i \in 1..Len(h) : h[i].Role = "tool"}

\* C21: at every point of a run req.MaxToolCalls is the budget the run
\* began with less the number of tool messages appended, whatever the calls
\* returned; req is the caller's object, so this is the budget the caller
\* finds when the run has returned.
C21_BudgetIsInitialLessResults ==
    /\ MaxToolCalls = initBudget - Cardinality(ToolMessages(msgs))
    /\ Terminal /\ pc = "done" =>
          MaxToolCalls = initBudget - Cardinality(ToolMessages(ret.out.InputMessages))

\* a run that returned a Response after two calls, one of which failed
C21_Witness ==
    /\ pc = "done"
    /\ initBudget = 2
    /\ MaxToolCalls = 0
    /\ \E i \in ToolMessages(msgs) : IsErrorText(msgs[i].Content)
    /\ \E i \in ToolMessages(msgs) : ~IsErrorText(msgs[i].Content)

\* the model has asked for tool calls only in reply to requests that
\* declared the tools: the budget never grows, so it is enough that the last
\* reply with tool calls arrived with a positive budget
ModelKeptToDeclared ==
    (\E i \in 1..Len(msgs) : msgs[i].Role = "assistant" /\ msgs[i].ToolCalls # <<>>)
        => turnBudget > 0

\* C22: when the model asks for tool calls only on turns that declared the
\* tools, every turn of tool calls takes at least one from the budget, the
\* budget does not go below zero, and the run has made at most
\* initBudget + 1 ChatCompletion calls, the last of which ends it; the loop
\* itself has no other limit: whatever the budget, a further reply with
\* tool calls is taken.
C22_TurnsWithinBudgetPlusOne ==
    /\ ModelKeptToDeclared =>
          /\ MaxToolCalls >= 0
          /\ nChat <= initBudget - MaxToolCalls + 1
          /\ nChat <= initBudget + 1
          /\ pc = "chat" => nChat <= initBudget - MaxToolCalls
          /\ pc = "tools" => MaxToolCalls >= 1
          /\ nChat = initBudget + 1 => Terminal
    /\ (pc = "chat" /\ nChat < MaxTurns) => ENABLED ChatToolCalls

\* a budget of 1: one turn of tool calls, then the reply that ends the run
C22_Witness ==
    /\ ModelKeptToDeclared
    /\ initBudget = 1
    /\ nChat = 2
    /\ pc = "done"
    /\ Cardinality(ToolMessages(msgs)) = 1

\* the type of the local error of a succeeded item r, "" when it has a
\* payload that decodes
LocalErrorKind(r) ==
    LET payload == PayloadOf(cleanJsonOutput(ResultText(r)))
    IN  IF r.Message = NilPtr THEN "missing_message"
        ELSE IF r.Message.Content = <<>> THEN "missing_content"
        ELSE IF payload = <<>> THEN "no_json_output"
        ELSE IF JsonUnmarshal(payload).err # Nil THEN "parsing_error"
        ELSE ""

\* C23: the entry of an item reported as succeeded has either a decoded
\* payload or a local error, never both and never neither; the error is
\* missing_message for a nil message, missing_content for an empty content
\* list, no_json_output when the text of the text blocks holds no payload,
\* parsing_error when the payload does not decode; the entry's type stays
\* "succeeded".
C23_SucceededItemOutcome ==
    \A k \in EndedPolls :
        \A j \in 1..Len(gwResults) :
            LET r == gwResults[j]
                e == polls[k].resp.Results[j]
            IN  r.Type = "succeeded" =>
                    /\ e.ResultType = "succeeded"
                    /\ (e.Output = NilPtr) # (e.Error = NilPtr)
                    /\ LocalErrorKind(r) = "" =>
                          /\ e.Error = NilPtr
                          /\ e.Output = JsonUnmarshal(PayloadOf(cleanJsonOutput(ResultText(r)))).val
                    /\ LocalErrorKind(r) # "" =>
                          /\ e.Output = NilPtr
                          /\ e.Error.Type = LocalErrorKind(r)
                          /\ e.Error.Message # <<>>

\* two succeeded items: one whose only block is not a text block, one whose
\* payload does not decode
C23_Witness ==
    \E k \in EndedPolls :
        /\ Len(gwResults) = 2
        /\ gwResults[1].Type = "succeeded"
        /\ gwResults[1].Message # NilPtr
        /\ Len(gwResults[1].Message.Content) = 1
        /\ gwResults[1].Message.Content[1].Type = "thinking"
        /\ polls[k].resp.Results[1].Error.Type = "no_json_output"
        /\ polls[k].resp.Results[2].ResultType = "succeeded"
        /\ polls[k].resp.Results[2].Error # NilPtr
        /\ polls[k].resp.Results[2].Error.Type = "parsing_error"

\* the request cannot be set up: the type has no rendering, or the
\* override has an action that is not closed or names no field
Misconfigured ==
    \/ OutputType = "chan"
    \/ /\ PromptOverride # Nil
       /\ \E i \in 1..Len(PromptOverride) : PromptOverride[i] \in {"{{", "{{.Nope}}"}

\* C25: a call whose output type cannot be rendered or whose template does
\* not parse or execute has returned an error and no Response once it has
\* taken its first step, and that is all it does: no ChatCompletion call,
\* no tool call, no message, the budget as it was, nothing further.
C25_ConfigErrorImmediate ==
    (Misconfigured /\ pc # "setup") =>
        /\ pc = "failed"
        /\ ret.out = NilPtr
        /\ ret.err # Nil
        /\ OutputType = "chan" => ret.err = <<"json: unsupported type: chan int">>
        /\ (OutputType # "chan" /\ Contains(PromptOverride, <<"{{">>)) =>
              HasPrefix(ret.err, <<"failed to parse prompt template: ">>)
        /\ (OutputType # "chan" /\ ~Contains(PromptOverride, <<"{{">>)) =>
              HasPrefix(ret.err, <<"prompt template execution failed: ">>)
        /\ nChat = 0
        /\ glreq = NoRequest
        /\ nInvoked = 0
        /\ msgs = <<>>
        /\ MaxToolCalls = initBudget
        /\ ~ENABLED SetupNext

\* a call with a budget and an override that does not execute has failed
C25_Witness ==
    /\ pc = "failed"
    /\ PromptOverride = <<"{{.Nope}}">>
    /\ OutputType = "struct"
    /\ initBudget = 2
    /\ HasPrefix(ret.err, <<"prompt template execution failed: ">>)

\* the conversation ModelCallStructured begins with for the request req
\* when its budget is 0
TurnLoopConversation(req) ==
    Append(SeedMessages(req.MessagePrefill, req.System),
           [Role |-> "user",
            Content |-> TemplateExecute(getStructuredCallPrompt(req),
                                        [OutputTemplate |-> OutputSpec,
                                         Prompt |-> req.Prompt,
                                         Context |-> req.Context,
                                         MaxToolCalls |-> 0]).out,
            ToolCalls |-> <<>>, ToolCallID |-> Nil])

\* C24: when the batch is handed to CreateBatch, the messages of every
\* entry are the conversation the turn loop begins with for the entry's own
\* request, whatever the other requests are.
C24_EntryIsTurnLoopConversation ==
    nCreateBatch > 0 =>
        \A i \in 1..Len(batchRequests) :
            batchRequests[i].Messages = TurnLoopConversation(requests[i])

\* the names of the tools of a list
NamesOf(ts) == {ts[i].Name : i \in 1..Len(ts)}

\* the argument of the last AddTool call that named n
LastAdded(n) ==
    added[CHOOSE i \in 1..Len(added) :
              /\ added[i].Name = n
              /\ \A j \in (i + 1)..Len(added) : added[j].Name # n]

\* the entries of the merged list that came from the client registry
ClientEntries == SubSeq(merged, 1, Len(merged) - Len(reqTools))

\* C26: with a client-level registry, a tool call is resolved by name against
\* the client's tools merged with the request's, so a tool of either is found
\* and a name of neither is not; after any AddTool calls the registry holds one
\* tool per registered name, the last one registered; a request tool that has
\* the name of a client tool is one more entry of the list after the client's,
\* and the client's tool is the one that runs.
C26_RegistryResolution ==
    /\ DOMAIN Tools = NamesOf(added)
    /\ \A n \in DOMAIN Tools : Tools[n] = LastAdded(n)
    /\ rpc \in {"merged", "resolved"} =>
          /\ Len(merged) = Cardinality(DOMAIN Tools) + Len(reqTools)
          /\ \A n \in DOMAIN Tools :
                Cardinality({i \in 1..Len(ClientEntries) : ClientEntries[i].Name = n}) = 1
          /\ \A i \in 1..Len(ClientEntries) :
                ClientEntries[i] = Tools[ClientEntries[i].Name]
          /\ SubSeq(merged, Len(merged) - Len(reqTools) + 1, Len(merged)) = reqTools
          /\ tooldefs = ToolDefsOf(merged)
    /\ rpc = "resolved" =>
          /\ handled.err = Nil <=> rcall.Name \in DOMAIN Tools \cup NamesOf(reqTools)
          /\ handled.invoked <=> rcall.Name \in DOMAIN Tools \cup NamesOf(reqTools)
          /\ rcall.Name \in DOMAIN Tools => handled.resp = <<Tools[rcall.Name].Func>>
          /\ rcall.Name \in NamesOf(reqTools) \ DOMAIN Tools =>
                \E i \in 1..Len(reqTools) :
                    /\ reqTools[i].Name = rcall.Name
                    /\ handled.resp = <<reqTools[i].Func>>
          /\ rcall.Name \notin DOMAIN Tools \cup NamesOf(reqTools) =>
                handled.err = <<"no such tool ", rcall.Name>>

\* a name registered twice, with different tools, also names a tool of the
\* request, and the model called it
C26_Witness ==
    /\ rpc = "resolved"
    /\ Len(added) = 2
    /\ added[1].Name = added[2].Name
    /\ added[1] # added[2]
    /\ rcall.Name \in DOMAIN Tools
    /\ rcall.Name \in NamesOf(reqTools)

\* m of this call
OwnUserMessage ==
    UserMessageOf(PromptOverride, renderOutputSpec(OutputType).out, initBudget)

\* C27: a call that runs while another call runs on a distinct request is not
\* disturbed by it: its history and every gateway request it sends are those
\* of the call running alone, which begin with the prefill followed by the
\* call's own user message.
C27_RunsDoNotInterfere ==
    /\ pc \notin {"setup", "failed"} =>
          IsPrefix(SeedMessages(MessagePrefill, System) \o <<OwnUserMessage>>, msgs)
    /\ nChat > 0 =>
          IsPrefix(SeedMessages(MessagePrefill, System) \o <<OwnUserMessage>>,
                   glreq.Messages)

====
